---- MODULE Spec2Model ----
(***************************************************************************)
(* A model of aws-creds-updater (src/main.py).                             *)
(*                                                                         *)
(* A text is a sequence of one-character strings.  A file is a record      *)
(* [exists, text]; text is what open(path).read() returns and what         *)
(* fout.write(text) stores (text mode on a POSIX system, where the only    *)
(* translation is of carriage returns, which the modelled alphabet does    *)
(* not contain).  Regular expressions are modelled by what Python's        *)
(* re.match does with them: anchored at the first character, `$' also      *)
(* matching before one final newline, IGNORECASE folding letters.          *)
(***************************************************************************)
EXTENDS Integers, Sequences, FiniteSets, TLC

\* ------------------------------------------------------------------------
\* Characters
\* ------------------------------------------------------------------------

UPPER == <<"A","B","C","D","E","F","G","H","I","J","K","L","M",
           "N","O","P","Q","R","S","T","U","V","W","X","Y","Z">>

LOWER == <<"a","b","c","d","e","f","g","h","i","j","k","l","m",
           "n","o","p","q","r","s","t","u","v","w","x","y","z">>

UpperSet == {UPPER[i] : i \in 1..26}

LowerSet == {LOWER[i] : i \in 1..26}

DigitSet == {"0","1","2","3","4","5","6","7","8","9"}

\* str.lower() of one character, as IGNORECASE compares letters.
Fold(c) ==
    IF c \in UpperSet THEN LOWER[CHOOSE i \in 1..26 : UPPER[i] = c] ELSE c

\* The characters \s matches and str.strip() removes, among those modelled.
Whitespace == {" ", "\t", "\n", "\f"}

\* The characters str.splitlines() breaks a text at, among those modelled.
LineBoundaries == {"\n", "\f"}

\* c repeated n times.
Rep(c, n) == [i \in 1..n |-> c]

\* ------------------------------------------------------------------------
\* Regular expressions, as re.match applies them
\* ------------------------------------------------------------------------

\* The literal lit occurs in s at position pos (1-based); with ic, letters
\* are compared case-insensitively.
LitAt(s, lit, pos, ic) ==
    /\ pos >= 1
    /\ pos + Len(lit) - 1 <= Len(s)
    /\ \A k \in 1..Len(lit) :
          IF ic THEN Fold(s[pos + k - 1]) = Fold(lit[k])
                ELSE s[pos + k - 1] = lit[k]

\* `$' at position pos (the next character to read): the end of the text, or
\* just before a newline that ends the text.
AtDollar(s, pos) ==
    \/ pos = Len(s) + 1
    \/ pos = Len(s) /\ s[pos] = "\n"

\* Every character of s in from..to belongs to class.
AllIn(s, from, to, class) == \A k \in from..to : s[k] \in class

\* [A-Z0-9], under IGNORECASE also a-z.
AlnumClass(ic) == UpperSet \cup DigitSet \cup (IF ic THEN LowerSet ELSE {})

\* [A-Z\-_0-9], under IGNORECASE also a-z.
NameClass(ic) == AlnumClass(ic) \cup {"-", "_"}

\* [^=]: s[k] is any character but "=".
NoEquals(s, from, to) == \A k \in from..to : s[k] # "="

AccessKeyPrefix ==
    <<"a","w","s","_","a","c","c","e","s","s","_","k","e","y","_","i","d","=">>

SecretKeyPrefix ==
    <<"a","w","s","_","s","e","c","r","e","t","_","a","c","c","e","s","s","_",
      "k","e","y","=">>

SessionTokenPrefix ==
    <<"a","w","s","_","s","e","s","s","i","o","n","_","t","o","k","e","n","=">>

AccountDigits == 12

MinNameLen == 6

AccessKeyLen == 20

SecretKeyLen == 40

MinTokenLen == 892

\* match(r"^aws_access_key_id=[A-Z0-9]{20}$", s [, IGNORECASE])
ACCESS_KEY_PATTERN(s, ic) ==
    LET p == Len(AccessKeyPrefix) IN
    /\ LitAt(s, AccessKeyPrefix, 1, ic)
    /\ Len(s) >= p + AccessKeyLen
    /\ AllIn(s, p + 1, p + AccessKeyLen, AlnumClass(ic))
    /\ AtDollar(s, p + AccessKeyLen + 1)

\* match(r"^aws_secret_access_key=[^=]{40}$", s [, IGNORECASE])
SECRET_KEY_PATTERN(s, ic) ==
    LET p == Len(SecretKeyPrefix) IN
    /\ LitAt(s, SecretKeyPrefix, 1, ic)
    /\ Len(s) >= p + SecretKeyLen
    /\ NoEquals(s, p + 1, p + SecretKeyLen)
    /\ AtDollar(s, p + SecretKeyLen + 1)

\* match(r"^aws_session_token=[^=]{892,}$", s [, IGNORECASE]): the greedy
\* repetition ends where `$' can match, at the end or before a last newline.
SESSION_TOKEN_PATTERN(s, ic) ==
    LET p == Len(SessionTokenPrefix) IN
    /\ LitAt(s, SessionTokenPrefix, 1, ic)
    /\ \E n \in {Len(s) - p, Len(s) - p - 1} :
          /\ n >= MinTokenLen
          /\ NoEquals(s, p + 1, p + n)
          /\ AtDollar(s, p + n + 1)

\* match(r"^\[[0-9]{12}[A-Z\-_0-9]{6,}\]$", s, IGNORECASE): q is the place
\* of the closing bracket.
PROFILE_PATTERN(s, ic) ==
    \E q \in {Len(s), Len(s) - 1} :
       /\ q >= 1 + AccountDigits + MinNameLen + 1
       /\ s[1] = "["
       /\ AllIn(s, 2, 1 + AccountDigits, DigitSet)
       /\ AllIn(s, 2 + AccountDigits, q - 1, NameClass(ic))
       /\ s[q] = "]"
       /\ AtDollar(s, q + 1)

\* ------------------------------------------------------------------------
\* The default configuration and its pattern
\* ------------------------------------------------------------------------

DEFAULT_CONFIG ==
    <<"[","d","e","f","a","u","l","t","]","\n",
      "r","e","g","i","o","n"," ","="," ","e","u","-","w","e","s","t","-","1","\n",
      "o","u","t","p","u","t"," ","="," ","j","s","o","n","\n">>

SectionAndRegionKey ==
    <<"[","d","e","f","a","u","l","t","]","\n","r","e","g","i","o","n">>

RegionAndOutputKey ==
    <<"e","u","-","w","e","s","t","-","1","\n","o","u","t","p","u","t">>

Json == <<"j","s","o","n">>

Yaml == <<"y","a","m","l">>

\* \s*: the first position at or after pos that holds no whitespace.
RECURSIVE SkipWhitespace(_, _)
SkipWhitespace(s, pos) ==
    IF pos <= Len(s) /\ s[pos] \in Whitespace
    THEN SkipWhitespace(s, pos + 1)
    ELSE pos

\* "\[default\]\nregion\s*=\s*eu-west-1\noutput\s*=\s*(json|yaml)($|\n)"
\* read from position pos, IGNORECASE.  What follows each \s* is no
\* whitespace, so the greedy repetition takes all of it.
DefaultBlockAt(s, pos) ==
    LET eq1 == SkipWhitespace(s, pos + Len(SectionAndRegionKey))
        val == SkipWhitespace(s, eq1 + 1)
        eq2 == SkipWhitespace(s, val + Len(RegionAndOutputKey))
        out == SkipWhitespace(s, eq2 + 1)
        end == out + Len(Json)
    IN  /\ LitAt(s, SectionAndRegionKey, pos, TRUE)
        /\ LitAt(s, <<"=">>, eq1, TRUE)
        /\ LitAt(s, RegionAndOutputKey, val, TRUE)
        /\ LitAt(s, <<"=">>, eq2, TRUE)
        /\ (LitAt(s, Json, out, TRUE) \/ LitAt(s, Yaml, out, TRUE))
        /\ (end = Len(s) + 1 \/ (end <= Len(s) /\ s[end] = "\n"))

\* DEFAULT_CONFIG_REGEX read from position pos: "(^|\n)" is the start of
\* the text (`^' without MULTILINE) or one newline, then the block.
DEFAULT_CONFIG_REGEX(s, pos) ==
    \/ pos = 1 /\ DefaultBlockAt(s, pos)
    \/ pos <= Len(s) /\ s[pos] = "\n" /\ DefaultBlockAt(s, pos + 1)

\* match(DEFAULT_CONFIG_REGEX, s, IGNORECASE): re.match looks for the
\* pattern at the first character of the text only.
MatchDefaultConfig(s) == DEFAULT_CONFIG_REGEX(s, 1)

\* ------------------------------------------------------------------------
\* str operations
\* ------------------------------------------------------------------------

Min(S) == CHOOSE i \in S : \A j \in S : i <= j

\* sub in s
Contains(s, sub) ==
    \E i \in 1..(Len(s) - Len(sub) + 1) : LitAt(s, sub, i, FALSE)

RECURSIVE SplitFrom(_, _, _)
SplitFrom(s, breaks, pos) ==
    IF pos > Len(s) THEN <<>>
    ELSE LET later == {i \in breaks : i >= pos}
             nb    == IF later = {} THEN Len(s) + 1 ELSE Min(later)
         IN  <<SubSeq(s, pos, nb - 1)>> \o SplitFrom(s, breaks, nb + 1)

\* s.splitlines(): the lines of s without their line boundaries; a boundary
\* that ends the text starts no further line.
splitlines(s) ==
    SplitFrom(s, {i \in 1..Len(s) : s[i] \in LineBoundaries}, 1)

RECURSIVE FirstNonSpace(_, _)
FirstNonSpace(s, pos) ==
    IF pos <= Len(s) /\ s[pos] \in Whitespace
    THEN FirstNonSpace(s, pos + 1)
    ELSE pos

RECURSIVE LastNonSpace(_, _)
LastNonSpace(s, pos) ==
    IF pos >= 1 /\ s[pos] \in Whitespace
    THEN LastNonSpace(s, pos - 1)
    ELSE pos

\* s.strip()
strip(s) == SubSeq(s, FirstNonSpace(s, 1), LastNonSpace(s, Len(s)))

\* "\n".join(lines)
RECURSIVE join(_)
join(lines) ==
    IF lines = <<>> THEN <<>>
    ELSE IF Len(lines) = 1 THEN lines[1]
    ELSE lines[1] \o <<"\n">> \o join(Tail(lines))

\* ------------------------------------------------------------------------
\* Files
\* ------------------------------------------------------------------------

NoFile == [exists |-> FALSE, text |-> <<>>]

File(text) == [exists |-> TRUE, text |-> text]

\* ------------------------------------------------------------------------
\* process_config_file
\* ------------------------------------------------------------------------

\* config_contents += "\n\n"; config_contents += DEFAULT_CONFIG
AppendDefaultConfig(config_contents) ==
    config_contents \o <<"\n", "\n">> \o DEFAULT_CONFIG

\* The config file process_config_file leaves, given the one it finds.
ProcessConfigFile(file) ==
    IF ~file.exists THEN File(DEFAULT_CONFIG)
    ELSE IF ~MatchDefaultConfig(file.text)
         THEN File(AppendDefaultConfig(file.text))
         ELSE file

\* ------------------------------------------------------------------------
\* update_creds_file and process_credentials
\* ------------------------------------------------------------------------

\* An input is what the four input() calls return:
\* <<profile_identifier, access_key_string, secret_key_string,
\*   session_token_string>>.
ProfileBlock(inp) == join(<<inp[1], inp[2], inp[3], inp[4]>>)

\* AppendProfile with one newline written instead of two.
AppendProfile_OneNewline(creds_contents, inp) ==
    creds_contents \o <<"\n">> \o ProfileBlock(inp)

\* creds_contents += "\n\n"; creds_contents += "\n".join([...])
AppendProfile(creds_contents, inp) ==
    creds_contents \o <<"\n", "\n">> \o ProfileBlock(inp)

\* ProfileLines with `in' written for `==': the lines that contain the
\* identifier.
ProfileLines_Substring(creds_lines, profile_identifier) ==
    {i \in 1..Len(creds_lines) : Contains(creds_lines[i], profile_identifier)}

\* The for/else loop: the lines whose strip() equals the identifier; the
\* loop breaks at the first, and raises when there is none.  Lines are
\* numbered from 1 here, from 0 in the code.
ProfileLines(creds_lines, profile_identifier) ==
    {i \in 1..Len(creds_lines) : strip(creds_lines[i]) = profile_identifier}

\* The three checks and overwrites after the profile line n, in order: each
\* reads creds_lines[n + k] (an IndexError past the end), matches it, and
\* replaces it in the list; the file is written after the third.
OverwriteProfile(creds_lines, n, inp) ==
    IF n + 1 > Len(creds_lines) THEN [outcome |-> "IndexError", lines |-> creds_lines]
    ELSE IF ~ACCESS_KEY_PATTERN(creds_lines[n + 1], TRUE)
         THEN [outcome |-> "AccessKeyMismatch", lines |-> creds_lines]
    ELSE IF n + 2 > Len(creds_lines) THEN [outcome |-> "IndexError", lines |-> creds_lines]
    ELSE IF ~SECRET_KEY_PATTERN(creds_lines[n + 2], TRUE)
         THEN [outcome |-> "SecretKeyMismatch", lines |-> creds_lines]
    ELSE IF n + 3 > Len(creds_lines) THEN [outcome |-> "IndexError", lines |-> creds_lines]
    ELSE IF ~SESSION_TOKEN_PATTERN(creds_lines[n + 3], TRUE)
         THEN [outcome |-> "SessionTokenMismatch", lines |-> creds_lines]
    ELSE [outcome |-> "ok",
          lines   |-> [creds_lines EXCEPT ![n + 1] = inp[2],
                                          ![n + 2] = inp[3],
                                          ![n + 3] = inp[4]]]

\* update_creds_file: the outcome ("ok", or the exception raised) and the
\* text of the credentials file when it returns or raises.
UpdateCredsFile(creds_contents, inp) ==
    IF ~Contains(creds_contents, inp[1])
    THEN [outcome |-> "ok", text |-> AppendProfile(creds_contents, inp)]
    ELSE LET creds_lines == splitlines(creds_contents)
             found       == ProfileLines(creds_lines, inp[1])
         IN  IF found = {}
             THEN [outcome |-> "ProfileNotFound", text |-> creds_contents]
             ELSE LET r == OverwriteProfile(creds_lines, Min(found), inp)
                  IN  IF r.outcome = "ok"
                      THEN [outcome |-> "ok", text |-> join(r.lines)]
                      ELSE [outcome |-> r.outcome, text |-> creds_contents]

\* ValidInputs with the session token's match left out of the list.
ValidInputs_NoTokenCheck(inp) ==
    /\ PROFILE_PATTERN(inp[1], TRUE)
    /\ ACCESS_KEY_PATTERN(inp[2], FALSE)
    /\ SECRET_KEY_PATTERN(inp[3], FALSE)

\* The all([...]) of process_credentials: the identifier is matched with
\* IGNORECASE, the three other inputs without.
ValidInputs(inp) ==
    /\ PROFILE_PATTERN(inp[1], TRUE)
    /\ ACCESS_KEY_PATTERN(inp[2], FALSE)
    /\ SECRET_KEY_PATTERN(inp[3], FALSE)
    /\ SESSION_TOKEN_PATTERN(inp[4], FALSE)

\* process_credentials on the credentials file `file' with the four inputs
\* inp: the outcome and the file it leaves.
ProcessCredentials(file, inp) ==
    IF ~ValidInputs(inp) THEN [outcome |-> "TBD", file |-> file]
    ELSE IF file.exists
         THEN LET r == UpdateCredsFile(file.text, inp)
              IN  [outcome |-> r.outcome, file |-> File(r.text)]
         ELSE [outcome |-> "ok", file |-> File(ProfileBlock(inp))]

\* ------------------------------------------------------------------------
\* create_backups
\* ------------------------------------------------------------------------

\* The backup directory maps a path <<file name, timestamp>> to a text.
EmptyDir == [p \in {} |-> <<>>]

\* copyfile(src, dst): dst holds the text of src, whether or not dst existed.
copyfile(dir, dst, text) ==
    [p \in DOMAIN dir \cup {dst} |-> IF p = dst THEN text ELSE dir[p]]

\* CreateBackups with the config file's copy left out.
CreateBackups_CredentialsOnly(dir, backup_dttm, credsFile, configFile) ==
    IF credsFile.exists
    THEN copyfile(dir, <<"credentials", backup_dttm>>, credsFile.text)
    ELSE dir

\* create_backups at the second backup_dttm: the backup directory it leaves.
CreateBackups(dir, backup_dttm, credsFile, configFile) ==
    LET afterCreds ==
            IF credsFile.exists
            THEN copyfile(dir, <<"credentials", backup_dttm>>, credsFile.text)
            ELSE dir
    IN  IF configFile.exists
        THEN copyfile(afterCreds, <<"config", backup_dttm>>, configFile.text)
        ELSE afterCreds

\* ------------------------------------------------------------------------
\* Bounds, inputs and initial files
\* ------------------------------------------------------------------------

\* Runs of the whole tool in a behaviour of Spec.
MaxRuns == 2

\* Seconds the clock may advance in a behaviour of Spec.
MaxClock == 1

\* Calls of process_credentials in a behaviour of SpecCreds.
MaxCalls == 2

\* Calls of process_config_file in a behaviour of SpecConfig.
MaxConfigCalls == 3

\* Sections an initial config file of SpecConfig is made of.
MaxChunks == 2

AccountA == <<"1","2","3","4","5","6","7","8","9","0","1","2">>

AccountB == <<"2","1","0","9","8","7","6","5","4","3","2","1">>

\* Profile identifiers: upper case, mixed case, another profile, and one
\* whose name is one character short.
HeaderUpper == <<"[">> \o AccountA \o <<"_","A","D","M","I","N">> \o <<"]">>

HeaderMixed == <<"[">> \o AccountA \o <<"_","A","d","m","i","n">> \o <<"]">>

HeaderOther == <<"[">> \o AccountB \o <<"_","D","E","V","O","P","S">> \o <<"]">>

HeaderShort == <<"[">> \o AccountA \o <<"_","A","D","M","I">> \o <<"]">>

AccessKey(c) == AccessKeyPrefix \o Rep(c, AccessKeyLen)

AccessKeyShort == AccessKeyPrefix \o Rep("A", AccessKeyLen - 1)

SecretKey(c) == SecretKeyPrefix \o Rep(c, SecretKeyLen)

\* A secret key holding a form feed: forty characters, none of them "=".
SecretKeyFormFeed ==
    SecretKeyPrefix \o Rep("s", 20) \o <<"\f">> \o Rep("s", SecretKeyLen - 21)

SecretKeyEquals == SecretKeyPrefix \o Rep("s", SecretKeyLen - 1) \o <<"=">>

SecretKeyShort == SecretKeyPrefix \o Rep("s", SecretKeyLen - 1)

SessionToken(c, n) == SessionTokenPrefix \o Rep(c, n)

New1 == <<HeaderUpper, AccessKey("A"), SecretKey("s"), SessionToken("t", MinTokenLen)>>

New2 == <<HeaderUpper, AccessKey("7"), SecretKey("/"), SessionToken("u", MinTokenLen + 1)>>

BadToken == <<HeaderUpper, AccessKey("A"), SecretKey("s"), SessionToken("t", MinTokenLen - 1)>>

ValidLooking ==
    { New1, New2,
      <<HeaderMixed, AccessKey("A"), SecretKey("s"), SessionToken("t", MinTokenLen)>>,
      <<HeaderUpper, AccessKey("A"), SecretKeyFormFeed, SessionToken("t", MinTokenLen)>> }

Malformed ==
    { BadToken,
      <<HeaderShort, AccessKey("A"), SecretKey("s"), SessionToken("t", MinTokenLen)>>,
      <<HeaderUpper, AccessKeyShort, SecretKey("s"), SessionToken("t", MinTokenLen)>>,
      <<HeaderUpper, AccessKey("a"), SecretKey("s"), SessionToken("t", MinTokenLen)>>,
      <<HeaderUpper, AccessKey("A"), SecretKeyEquals, SessionToken("t", MinTokenLen)>> }

\* What the user may type at the four prompts.
Inputs == ValidLooking \cup Malformed

\* The inputs tried in the runs of the whole tool.
PipelineInputs == {New1, New2, BadToken}

\* A block already in the file for `header'.
OldBlock(header) ==
    join(<<header, AccessKey("C"), SecretKey("o"), SessionToken("o", MinTokenLen + 2)>>)

Comment == <<"#", " ", "x">>

NL == <<"\n">>

\* Credentials files process_credentials may find.
InitialCreds ==
    { NoFile,
      File(<<>>),
      File(Comment),
      File(Comment \o NL),
      File(OldBlock(HeaderUpper)),
      File(OldBlock(HeaderUpper) \o NL),
      File(OldBlock(HeaderUpper) \o NL \o NL),
      File(OldBlock(HeaderUpper) \o NL \o NL \o NL),
      File(OldBlock(HeaderOther) \o NL \o NL \o OldBlock(HeaderUpper)
             \o NL \o NL \o OldBlock(HeaderUpper) \o NL),
      \* the identifier inside a longer line only
      File(join(<<<<"#">> \o HeaderUpper, AccessKey("C"), SecretKey("o"),
                  SessionToken("o", MinTokenLen)>>)),
      \* the identifier with blanks around it
      File(join(<<<<" ">> \o HeaderUpper \o <<"\t">>, AccessKey("C"),
                  SecretKey("o"), SessionToken("o", MinTokenLen)>>)),
      \* a lower-case access key in the file
      File(join(<<HeaderUpper, AccessKey("c"), SecretKey("o"),
                  SessionToken("o", MinTokenLen)>>)),
      \* a good access key line, a short secret key line
      File(join(<<HeaderUpper, AccessKey("C"), SecretKeyShort,
                  SessionToken("o", MinTokenLen)>>)),
      \* a short session token line
      File(join(<<HeaderUpper, AccessKey("C"), SecretKey("o"),
                  SessionToken("o", MinTokenLen - 1)>>)),
      \* one line only after the identifier
      File(join(<<HeaderUpper, AccessKey("C")>>)),
      \* the identifier as the last line
      File(Comment \o NL \o HeaderUpper \o NL) }

YamlBlock ==
    <<"[","D","E","F","A","U","L","T","]","\n",
      "R","e","g","i","o","n","=","e","u","-","w","e","s","t","-","1","\n",
      "O","u","t","p","u","t"," "," ","="," "," ","Y","A","M","L">>

OtherSection ==
    <<"[","p","r","o","f","i","l","e"," ","d","e","v","]","\n",
      "r","e","g","i","o","n"," ","="," ","u","s","-","e","a","s","t","-","1","\n">>

WrongRegion ==
    <<"[","d","e","f","a","u","l","t","]","\n",
      "r","e","g","i","o","n"," ","="," ","u","s","-","e","a","s","t","-","1","\n",
      "o","u","t","p","u","t"," ","="," ","j","s","o","n","\n">>

Chunks == {DEFAULT_CONFIG, YamlBlock, OtherSection, WrongRegion, NL}

RECURSIVE ChunkTexts(_)
ChunkTexts(k) ==
    IF k = 0 THEN {<<>>}
    ELSE ChunkTexts(k - 1) \cup {t \o c : t \in ChunkTexts(k - 1), c \in Chunks}

\* Config files process_config_file may find.
InitialConfigs == {NoFile} \cup {File(t) : t \in ChunkTexts(MaxChunks)}

\* ------------------------------------------------------------------------
\* State
\* ------------------------------------------------------------------------

VARIABLES
    creds,     \* ~/.aws/credentials
    config,    \* ~/.aws/config
    backups,   \* ~/.aws/creds_backups
    clock,     \* the wall clock, in seconds
    pc,        \* where the run of the tool is
    runs,      \* runs of the tool started
    atStart,   \* the two files as the current run found them
    call,      \* the last call of process_credentials
    prev,      \* the call of process_credentials before it
    cfgCall    \* the last call of process_config_file

vars == <<creds, config, backups, clock, pc, runs, atStart, call, prev, cfgCall>>

\* A call of process_credentials: its number, the four inputs, the file it
\* found, how it ended, and the number of lines of the file before and after.
NoCall ==
    [n |-> 0, inp |-> <<>>, before |-> NoFile, outcome |-> "none",
     linesBefore |-> 0, linesAfter |-> 0]

InitWith(credsFiles, configFiles) ==
    /\ creds \in credsFiles
    /\ config \in configFiles
    /\ backups = EmptyDir
    /\ clock = 0
    /\ pc = "start"
    /\ runs = 0
    /\ atStart = [credentials |-> creds, config |-> config]
    /\ call = NoCall
    /\ prev = NoCall
    /\ cfgCall = [n |-> 0, before |-> NoFile]

\* process_credentials reads inp and acts on the credentials file.
Credentials(inp) ==
    LET r == ProcessCredentials(creds, inp) IN
    /\ creds' = r.file
    /\ call' = [n |-> call.n + 1, inp |-> inp, before |-> creds,
                outcome |-> r.outcome,
                linesBefore |-> Len(splitlines(creds.text)),
                linesAfter |-> Len(splitlines(r.file.text))]
    /\ prev' = call

\* process_config_file acts on the config file.
Configure ==
    /\ config' = ProcessConfigFile(config)
    /\ cfgCall' = [n |-> cfgCall.n + 1, before |-> config]

\* ------------------------------------------------------------------------
\* The whole tool: create_backups(); process_config_file();
\* process_credentials()
\* ------------------------------------------------------------------------

Init ==
    InitWith({NoFile, File(OldBlock(HeaderUpper) \o NL),
              File(join(<<HeaderUpper, AccessKey("C")>>))},
             {NoFile, File(DEFAULT_CONFIG), File(OtherSection)})

Tick ==
    /\ clock < MaxClock
    /\ clock' = clock + 1
    /\ UNCHANGED <<creds, config, backups, pc, runs, atStart, call, prev, cfgCall>>

create_backups ==
    /\ pc \in {"start", "exit_ok", "exit_error"}
    /\ runs < MaxRuns
    /\ runs' = runs + 1
    /\ atStart' = [credentials |-> creds, config |-> config]
    /\ backups' = CreateBackups(backups, clock, creds, config)
    /\ pc' = "backed_up"
    /\ UNCHANGED <<creds, config, clock, call, prev, cfgCall>>

process_config_file ==
    /\ pc = "backed_up"
    /\ Configure
    /\ pc' = "config_done"
    /\ UNCHANGED <<creds, backups, clock, runs, atStart, call, prev>>

process_credentials ==
    /\ pc = "config_done"
    /\ \E inp \in PipelineInputs :
          /\ Credentials(inp)
          /\ pc' = IF call'.outcome = "ok" THEN "exit_ok" ELSE "exit_error"
    /\ UNCHANGED <<config, backups, clock, runs, atStart, cfgCall>>

Next == Tick \/ create_backups \/ process_config_file \/ process_credentials

Spec == Init /\ [][Next]_vars

\* ------------------------------------------------------------------------
\* process_credentials called again and again on one credentials file
\* ------------------------------------------------------------------------

InitCreds == InitWith(InitialCreds, {File(DEFAULT_CONFIG)})

CallProcessCredentials ==
    /\ call.n < MaxCalls
    /\ \E inp \in Inputs : Credentials(inp)
    /\ UNCHANGED <<config, backups, clock, pc, runs, atStart, cfgCall>>

NextCreds == CallProcessCredentials

SpecCreds == InitCreds /\ [][NextCreds]_vars

\* ------------------------------------------------------------------------
\* process_config_file called again and again on one config file
\* ------------------------------------------------------------------------

InitConfig == InitWith({NoFile}, InitialConfigs)

CallProcessConfigFile ==
    /\ cfgCall.n < MaxConfigCalls
    /\ Configure
    /\ UNCHANGED <<creds, backups, clock, pc, runs, atStart, call, prev>>

NextConfig == CallProcessConfigFile

SpecConfig == InitConfig /\ [][NextConfig]_vars

\* ------------------------------------------------------------------------
\* The fixed patterns, as the specification words them
\* ------------------------------------------------------------------------

\* '[' + 12 digits + 6 or more name characters + ']'
HeaderShape(s, letters) ==
    /\ Len(s) >= 1 + AccountDigits + MinNameLen + 1
    /\ s[1] = "[" /\ s[Len(s)] = "]"
    /\ \A k \in 2..(1 + AccountDigits) : s[k] \in DigitSet
    /\ \A k \in (2 + AccountDigits)..(Len(s) - 1) :
          s[k] \in letters \cup DigitSet \cup {"-", "_"}

\* 'aws_access_key_id=' + exactly 20 uppercase alphanumeric characters
AccessKeyLineShape(s) ==
    /\ Len(s) = Len(AccessKeyPrefix) + AccessKeyLen
    /\ SubSeq(s, 1, Len(AccessKeyPrefix)) = AccessKeyPrefix
    /\ \A k \in (Len(AccessKeyPrefix) + 1)..Len(s) : s[k] \in UpperSet \cup DigitSet

\* 'aws_secret_access_key=' + exactly 40 non-'=' characters
SecretKeyLineShape(s) ==
    /\ Len(s) = Len(SecretKeyPrefix) + SecretKeyLen
    /\ SubSeq(s, 1, Len(SecretKeyPrefix)) = SecretKeyPrefix
    /\ \A k \in (Len(SecretKeyPrefix) + 1)..Len(s) : s[k] # "="

\* 'aws_session_token=' + at least 892 non-'=' characters
SessionTokenLineShape(s) ==
    /\ Len(s) >= Len(SessionTokenPrefix) + MinTokenLen
    /\ SubSeq(s, 1, Len(SessionTokenPrefix)) = SessionTokenPrefix
    /\ \A k \in (Len(SessionTokenPrefix) + 1)..Len(s) : s[k] # "="

\* The last call of process_credentials went on to update_creds_file.
UpdateCalled == call.n > 0 /\ call.outcome # "TBD" /\ call.before.exists

\* The lines of the credentials file before and after the last call.
LinesBefore == splitlines(call.before.text)

LinesAfter == splitlines(creds.text)

\* The lines of the file, before the last call, that equal the identifier
\* after trimming.
HeaderLines ==
    {i \in 1..Len(LinesBefore) : strip(LinesBefore[i]) = call.inp[1]}

\* Each of the four inputs is one line: it holds no line boundary.
SingleLines ==
    \A k \in 1..4 : \A j \in 1..Len(call.inp[k]) :
       call.inp[k][j] \notin LineBoundaries

\* The three lines after the first such line exist and have their shapes.
WellFormedBlock ==
    /\ HeaderLines # {}
    /\ LET n == Min(HeaderLines) IN
       /\ n + 3 <= Len(LinesBefore)
       /\ AccessKeyLineShape(LinesBefore[n + 1])
       /\ SecretKeyLineShape(LinesBefore[n + 2])
       /\ SessionTokenLineShape(LinesBefore[n + 3])

\* ------------------------------------------------------------------------
\* C1
\* ------------------------------------------------------------------------

\* C1, as stated: whenever one of the four inputs fails its pattern, the
\* identifier's being '[' + 12 digits + 6 or more UPPERCASE letters, digits,
\* dashes or underscores + ']', process_credentials ends in a fatal error
\* and leaves the credentials file (present or absent) as it was.
C1_AsStated ==
    (/\ call.n > 0
     /\ ~(/\ HeaderShape(call.inp[1], UpperSet)
          /\ AccessKeyLineShape(call.inp[2])
          /\ SecretKeyLineShape(call.inp[3])
          /\ SessionTokenLineShape(call.inp[4])))
    => (call.outcome # "ok" /\ creds = call.before)

\* C1, amended: the same with the identifier's letters in either case:
\* whenever one of the four inputs fails its pattern, process_credentials
\* raises its validation error and leaves the credentials file as it was.
C1_RejectsInvalidInput ==
    (/\ call.n > 0
     /\ ~(/\ HeaderShape(call.inp[1], UpperSet \cup LowerSet)
          /\ AccessKeyLineShape(call.inp[2])
          /\ SecretKeyLineShape(call.inp[3])
          /\ SessionTokenLineShape(call.inp[4])))
    => (call.outcome = "TBD" /\ creds = call.before)

\* A call on an existing file that holds the identifier, with a well-shaped
\* identifier and a session token one character short, was rejected.
C1_Witness ==
    /\ call.n > 0
    /\ call.before.exists
    /\ Contains(call.before.text, call.inp[1])
    /\ HeaderShape(call.inp[1], UpperSet)
    /\ ~SessionTokenLineShape(call.inp[4])
    /\ call.outcome = "TBD"

\* ------------------------------------------------------------------------
\* C2
\* ------------------------------------------------------------------------

\* C2, as stated: when the file holds a line equal (trimmed) to the
\* identifier and the three lines after the first such line have their
\* shapes, after update_creds_file those three lines are the three new
\* lines (each of them one line) and the file has the same number of
\* lines, every other line as before.
C2_AsStated ==
    (UpdateCalled /\ SingleLines /\ WellFormedBlock)
    => LET n == Min(HeaderLines) IN
       /\ call.outcome = "ok"
       /\ Len(LinesAfter) = Len(LinesBefore)
       /\ \A i \in 1..Len(LinesBefore) :
             i <= Len(LinesAfter) =>
                LinesAfter[i] = IF i \in (n + 1)..(n + 3)
                                THEN call.inp[i - n + 1]
                                ELSE LinesBefore[i]

\* ------------------------------------------------------------------------
\* C3
\* ------------------------------------------------------------------------

\* The identifier does not occur in the existing file the last call found.
ProfileAbsent ==
    UpdateCalled /\ ~Contains(call.before.text, call.inp[1])

\* C3, as stated: when the existing file does not contain the identifier,
\* afterwards its lines are the original lines, then two blank lines, then
\* the four new lines (each of them one line), whether or not the original
\* ended with a newline.
C3_AsStated ==
    (ProfileAbsent /\ SingleLines)
    => LinesAfter = LinesBefore \o << <<>>, <<>> >>
                      \o <<call.inp[1], call.inp[2], call.inp[3], call.inp[4]>>

\* C3, amended: when the existing file does not contain the identifier,
\* afterwards its text is the original text, then two newline characters,
\* then the four new lines with one newline between them and none after.
C3_AppendsAfterTwoNewlines ==
    ProfileAbsent
    => /\ call.outcome = "ok"
       /\ creds.exists
       /\ creds.text = call.before.text \o <<"\n", "\n">>
                         \o call.inp[1] \o <<"\n">> \o call.inp[2] \o <<"\n">>
                         \o call.inp[3] \o <<"\n">> \o call.inp[4]

\* A profile was appended to a file whose last line had no newline.
C3_Witness ==
    /\ ProfileAbsent
    /\ call.before.text # <<>>
    /\ call.before.text[Len(call.before.text)] # "\n"
    /\ call.outcome = "ok"
    /\ creds # call.before

\* ------------------------------------------------------------------------
\* C4
\* ------------------------------------------------------------------------

\* re.search(DEFAULT_CONFIG_REGEX, s, IGNORECASE): the pattern anywhere.
DefaultBlockAnywhere(s) ==
    \E pos \in 1..(Len(s) + 1) : DEFAULT_CONFIG_REGEX(s, pos)

\* C4, as stated: when the existing config file holds the default block
\* anywhere in its text, process_config_file leaves it unchanged.
C4_AsStated ==
    (/\ cfgCall.n > 0
     /\ cfgCall.before.exists
     /\ DefaultBlockAnywhere(cfgCall.before.text))
    => config = cfgCall.before

\* ------------------------------------------------------------------------
\* C5
\* ------------------------------------------------------------------------

\* C5: for each of the two files that existed when the run started, once
\* the run has changed it, and when the run has ended (normally or by a
\* fatal error), the backup directory holds a copy of the text the file had
\* when the run started.
C5_BackupBeforeWrite ==
    \A f \in {"credentials", "config"} :
       LET now == IF f = "credentials" THEN creds ELSE config IN
       (/\ atStart[f].exists
        /\ (now # atStart[f] \/ pc \in {"exit_ok", "exit_error"}))
       => \E p \in DOMAIN backups : p[1] = f /\ backups[p] = atStart[f].text

\* A run that found both files, changed the config file and then the
\* credentials file, and ended normally.
C5_Witness ==
    /\ pc = "exit_ok"
    /\ atStart["credentials"].exists /\ creds # atStart["credentials"]
    /\ atStart["config"].exists /\ config # atStart["config"]

\* ------------------------------------------------------------------------
\* C6
\* ------------------------------------------------------------------------

\* C6, as stated: once written, a backup file stays in the backup directory
\* with the same text, whatever runs follow, two runs in one clock second
\* included.
C6_AsStated ==
    [][\A p \in DOMAIN backups :
          p \in DOMAIN backups' /\ backups'[p] = backups[p]]_vars

\* ------------------------------------------------------------------------
\* C7
\* ------------------------------------------------------------------------

\* C7, as stated: when the file holds a line equal to the identifier and
\* the three lines after the first such line do not all exist with their
\* shapes, update_creds_file raises and the file is as before.
C7_AsStated ==
    (UpdateCalled /\ HeaderLines # {} /\ ~WellFormedBlock)
    => (call.outcome # "ok" /\ creds = call.before)

\* ------------------------------------------------------------------------
\* C8
\* ------------------------------------------------------------------------

\* The identifier occurs in the file, but not as a line of its own.
HeaderOnlyEmbedded ==
    /\ UpdateCalled
    /\ Contains(call.before.text, call.inp[1])
    /\ HeaderLines = {}

\* C8: when the identifier occurs in the file as a substring but no line,
\* trimmed, equals it, update_creds_file raises "Unable to find profile
\* identifier" and the file is unchanged.
C8_EmbeddedHeaderIsFatal ==
    HeaderOnlyEmbedded
    => (call.outcome = "ProfileNotFound" /\ creds = call.before)

\* A call found the identifier inside a longer line only.
C8_Witness ==
    /\ HeaderOnlyEmbedded
    /\ \E i \in 1..Len(LinesBefore) :
          /\ Contains(LinesBefore[i], call.inp[1])
          /\ Len(LinesBefore[i]) > Len(call.inp[1])

\* ------------------------------------------------------------------------
\* C9
\* ------------------------------------------------------------------------

\* C9, as stated: after one call of process_config_file, a further call
\* leaves the config file unchanged.
C9_AsStated ==
    cfgCall.n >= 2 => config = cfgCall.before

\* ------------------------------------------------------------------------
\* C10
\* ------------------------------------------------------------------------

\* C10, as stated: after a call of process_credentials that succeeded, a
\* second call with the same four inputs succeeds too and leaves the file
\* with the same sequence of lines.
C10_AsStated ==
    (call.n >= 2 /\ prev.outcome = "ok" /\ call.inp = prev.inp)
    => (call.outcome = "ok" /\ LinesAfter = LinesBefore)

====
